---- MODULE Spec2Model ----
(***************************************************************************)
(* pc-bench: SystemTester.getSystemInfo, SystemTester.testMultiThread-     *)
(* Performance (src/src/worker.js) and testAll (src/src/test-all.ts).      *)
(*                                                                         *)
(* One action is one turn of the Node event loop: the callback of the      *)
(* event (a provider query settling, a worker 'message' or 'error') and    *)
(* the promise continuations it makes runnable, up to the next await that  *)
(* has to wait for an event.                                               *)
(***************************************************************************)
EXTENDS Integers, Sequences, FiniteSets, TLC

\* ------------------------------------------------------------------ bounds
\* Largest logical core count the hardware profiles report.
MaxCores == 8
\* Pools of at most MaxVaried workers are explored with every assignment of
\* task results; larger pools with the same result in every worker.
MaxVaried == 2

\* ------------------------------------------------------- JavaScript values
\* An optional number: <<>> is undefined, <<n>> is the number n.
Undefined == <<>>
Num(n) == <<n>>

\* a || d on an optional number: undefined and 0 are falsy.
JsOr(a, d) == IF a = Undefined \/ a[1] = 0 THEN d ELSE a[1]

\* a <= 0 on an optional number: undefined converts to NaN, every
\* comparison with NaN is false.
JsLeqZero(a) == a # Undefined /\ a[1] <= 0

\* !s on a string.
JsNot(s) == s = ""

\* A byte count too large for one 32-bit integer of TLC is kept as
\* mib * 2^20 + b with 0 <= b < 2^20 (mib may be negative).
MiB == 1024 * 1024
Bytes(m, r) == [mib |-> m, b |-> r]

\* x - y on byte counts.
BytesSub(x, y) ==
    LET d == x.b - y.b
    IN  IF d < 0 THEN Bytes(x.mib - y.mib - 1, d + MiB)
                 ELSE Bytes(x.mib - y.mib, d)

\* 1024 ** 3
GiB == 1024 * 1024 * 1024

\* x / 1024 ** 3: the quotient is int + frac / 2^30 with 0 <= frac < 2^30,
\* which a double holds exactly for every byte count below 2^53.
DivGiB(x) ==
    [int  |-> x.mib \div (GiB \div MiB),
     frac |-> (x.mib % (GiB \div MiB)) * MiB + x.b]

\* q <= 0 and q < 0 on such a quotient.
QLeqZero(q) == q.int < 0 \/ (q.int = 0 /\ q.frac = 0)
QLtZero(q) == q.int < 0

\* ------------------------------------------------ the hardware (environment)
\* What the systeminformation provider reports. It is fixed for a run: the
\* machine does not change between two queries.
CoreCounts == {Undefined} \cup {Num(n) : n \in 0..MaxCores}

CpuBase ==
    [manufacturer |-> "Intel", brand |-> "Core i7", speed |-> 3,
     cores |-> Num(1), physicalCores |-> 4, processors |-> 1]

CpuReadings ==
    {[CpuBase EXCEPT !.cores = c] : c \in CoreCounts}
    \cup {[CpuBase EXCEPT !.manufacturer = ""],
          [CpuBase EXCEPT !.brand = ""],
          [CpuBase EXCEPT !.speed = 0],
          [CpuBase EXCEPT !.physicalCores = 0],
          [CpuBase EXCEPT !.manufacturer = "", !.cores = Num(2)]}

ControllerBase ==
    [vendor |-> "NVIDIA", model |-> "RTX 3060", memoryTotal |-> Num(12288),
     memoryUsed |-> Undefined, memoryFree |-> Num(0)]

\* graphics().controllers: no controller at all, or one.
GpuReadings ==
    {<<>>}
    \cup {<<[ControllerBase EXCEPT !.vendor = v, !.model = m]>> :
            v \in {"", "NVIDIA"}, m \in {"", "RTX 3060"}}

\* mem(): total and free, in bytes.
MemTotals == {Bytes(0, 0), Bytes(16384, 0), Bytes(16384 * 1024, 0)}
MemFrees ==
    {Bytes(-1, MiB - 1), Bytes(0, 0), Bytes(8192, 1), Bytes(8192 * 1024, 0),
     Bytes(16384 * 1024, 0)}
MemReadings == {[total |-> t, free |-> f] : t \in MemTotals, f \in MemFrees}
MemBase == [total |-> Bytes(16384 * 1024, 0), free |-> Bytes(8192 * 1024, 0)]

\* diskLayout() and networkStats(): an empty list, or one entry.
DiskReadings == {<<>>, <<[size |-> Bytes(512 * 1024, 0), type |-> "SSD"]>>}
NetReadings == {<<>>, <<[ms |-> 12, iface |-> "eth0"]>>}

\* cpuTemperature()
TempBase == [max |-> 2, cores |-> <<41, 43>>, socket |-> <<>>]

Hardware(c, g, m, d, n) ==
    [cpu |-> c, graphics |-> g, mem |-> m, disk |-> d, net |-> n,
     temp |-> TempBase]

\* Profiles for a testAll run: every field varies, the pool stays small.
WideProfiles ==
    {Hardware(c, g, m, d, n) :
        c \in {x \in CpuReadings : x.cores = Undefined \/ x.cores[1] <= MaxVaried},
        g \in GpuReadings, m \in MemReadings, d \in DiskReadings,
        n \in NetReadings}

\* Profiles for a direct testMultiThreadPerformance call, which reads
\* cpu.cores alone.
PoolProfiles ==
    {Hardware([CpuBase EXCEPT !.cores = c], <<ControllerBase>>, MemBase,
              <<[size |-> Bytes(512 * 1024, 0), type |-> "SSD"]>>,
              <<[ms |-> 12, iface |-> "eth0"]>>) : c \in CoreCounts}

\* ------------------------------------------------------------------- state
VARIABLES
    entry,           \* the exported function the run calls
    hw,              \* the hardware the provider reads
    pc,              \* the await the coordinating thread is suspended at
    systemInfo,      \* testAll's systemInfo: <<>> until getSystemInfo returns
    workers,         \* the Worker objects, in creation order
    workerPromises,  \* testMultiThreadPerformance's workerPromises
    taskResult,      \* what performTask computes in each worker
    mtp,             \* the promise testMultiThreadPerformance returned
    log,             \* the lines of console.log
    errors,          \* the lines of console.error
    performanceTest, \* the PerformanceTestResult records printed
    testAllState     \* the promise testAll returned

vars ==
    <<entry, hw, pc, systemInfo, workers, workerPromises, taskResult, mtp, log,
      errors, performanceTest, testAllState>>

\* The awaits of getSystemInfo, in program order.
GsiAwaits == <<"gsi_cpu", "gsi_graphics", "gsi_mem", "gsi_disk", "gsi_net", "gsi_temp">>

IndexOf(seq, x) == CHOOSE i \in 1..Len(seq) : seq[i] = x
InSeq(seq, x) == \E i \in 1..Len(seq) : seq[i] = x

\* What the worker script replies; the loop of 1e10 additions is not run, its
\* result is whatever number the script of the run computes.
ReplyValues == {0, 1, 437}

Init ==
    /\ \/ entry = "testAll" /\ hw \in WideProfiles
       \/ entry = "testMultiThreadPerformance" /\ hw \in PoolProfiles
    /\ pc = "idle"
    /\ systemInfo = <<>>
    /\ workers = <<>>
    /\ workerPromises = <<>>
    /\ taskResult = <<>>
    /\ mtp = [state |-> "idle", value |-> 0]
    /\ log = <<>>
    /\ errors = <<>>
    /\ performanceTest = <<>>
    /\ testAllState = "idle"

\* ------------------------------------------------------------ getSystemInfo
\* RamInfo with the operands of the subtraction exchanged.
RamInfoSwapped(ram) ==
    [total |-> DivGiB(ram.total),
     free  |-> DivGiB(ram.free),
     used  |-> DivGiB(BytesSub(ram.free, ram.total))]

\* The ram member of the object getSystemInfo returns.
RamInfo(ram) ==
    [total |-> DivGiB(ram.total),
     free  |-> DivGiB(ram.free),
     used  |-> DivGiB(BytesSub(ram.total, ram.free))]

\* controllers[0], disk[0] and network[0] of an empty list are undefined, and
\* reading a property of undefined throws a TypeError.
GetSystemInfoThrows(h) == h.graphics = <<>> \/ h.disk = <<>> \/ h.net = <<>>

\* The object getSystemInfo returns.
GetSystemInfo(h) ==
    [cpu |->
        [manufacturer |-> h.cpu.manufacturer,
         brand |-> h.cpu.brand,
         speed |-> h.cpu.speed,
         cores |-> h.cpu.cores,
         physicalCores |-> h.cpu.physicalCores,
         processors |-> h.cpu.processors,
         coresInfo |->
            [i \in 1..h.temp.max |->
                [logicalCores |-> Len(h.temp.cores),
                 frequency |-> h.cpu.speed,
                 load |-> IF i <= Len(h.temp.socket)
                          THEN Num(h.temp.socket[i]) ELSE Undefined]]],
     gpu |->
        [manufacturer |-> h.graphics[1].vendor,
         model |-> h.graphics[1].model,
         memoryTotal |-> JsOr(h.graphics[1].memoryTotal, 0),
         memoryUsed |-> JsOr(h.graphics[1].memoryUsed, 0),
         memoryFree |-> JsOr(h.graphics[1].memoryFree, 0)],
     ram |-> RamInfo(h.mem),
     disk |-> [size |-> DivGiB(h.disk[1].size), type |-> h.disk[1].type],
     network |-> [speed |-> h.net[1].ms, interface |-> h.net[1].iface]]

\* ------------------------------------------------------------------ testAll
\* Validate with ram.free <= 0 in place of ram.free < 0.
ValidateFreeLeq(info) ==
    IF \/ JsNot(info.cpu.manufacturer)
       \/ JsNot(info.cpu.brand)
       \/ info.cpu.speed <= 0
       \/ JsLeqZero(info.cpu.cores)
       \/ info.cpu.physicalCores <= 0
    THEN "Erreur : Données du processeur invalides."
    ELSE IF JsNot(info.gpu.manufacturer) \/ JsNot(info.gpu.model)
    THEN "Erreur : Données de la carte graphique invalides."
    ELSE IF \/ QLeqZero(info.ram.total)
            \/ QLeqZero(info.ram.free)
            \/ QLeqZero(info.ram.used)
    THEN "Erreur : Données de la RAM invalides."
    ELSE ""

\* Validate without its GPU and RAM blocks.
ValidateCpuOnly(info) ==
    IF \/ JsNot(info.cpu.manufacturer)
       \/ JsNot(info.cpu.brand)
       \/ info.cpu.speed <= 0
       \/ JsLeqZero(info.cpu.cores)
       \/ info.cpu.physicalCores <= 0
    THEN "Erreur : Données du processeur invalides."
    ELSE ""

\* The three validations of testAll: the message of the error thrown, "" when
\* none is.
Validate(info) ==
    IF \/ JsNot(info.cpu.manufacturer)
       \/ JsNot(info.cpu.brand)
       \/ info.cpu.speed <= 0
       \/ JsLeqZero(info.cpu.cores)
       \/ info.cpu.physicalCores <= 0
    THEN "Erreur : Données du processeur invalides."
    ELSE IF JsNot(info.gpu.manufacturer) \/ JsNot(info.gpu.model)
    THEN "Erreur : Données de la carte graphique invalides."
    ELSE IF \/ QLeqZero(info.ram.total)
            \/ QLtZero(info.ram.free)
            \/ QLeqZero(info.ram.used)
    THEN "Erreur : Données de la RAM invalides."
    ELSE ""

\* The catch block of testAll: one console.error, and the async function
\* returns normally.
Catch(error) ==
    /\ errors' = Append(errors, error)
    /\ testAllState' = "resolved"
    /\ pc' = "done"

\* PerformanceTest with cpuFrequency read from the wrong field.
PerformanceTestPhysicalCores(info, multiThreadPerformance) ==
    [cpuFrequency |-> info.cpu.physicalCores,
     gpuPerformance |-> 100,
     ramSpeed |-> 3200,
     diskSpeed |-> 500,
     multiThreadPerformance |-> multiThreadPerformance]

\* The record testAll assembles.
PerformanceTest(info, multiThreadPerformance) ==
    [cpuFrequency |-> info.cpu.speed,
     gpuPerformance |-> 100,
     ramSpeed |-> 3200,
     diskSpeed |-> 500,
     multiThreadPerformance |-> multiThreadPerformance]

\* TestAllAfterMtp without the check multiThreadPerformance <= 0.
TestAllAfterMtpUnchecked(multiThreadPerformance) ==
    /\ log' = log \o <<"Performance multithread :",
                       "Performance multithread validée.",
                       "Résultats du test de performance :",
                       "==== Tests réussis ====">>
    /\ performanceTest' =
           Append(performanceTest,
                  PerformanceTest(systemInfo[1], multiThreadPerformance))
    /\ testAllState' = "resolved"
    /\ pc' = "done"
    /\ UNCHANGED errors

\* What testAll does with the number testMultiThreadPerformance returned.
TestAllAfterMtp(multiThreadPerformance) ==
    IF multiThreadPerformance <= 0
    THEN /\ log' = Append(log, "Performance multithread :")
         /\ Catch("Erreur : Performance multithread invalide.")
         /\ UNCHANGED performanceTest
    ELSE /\ log' = log \o <<"Performance multithread :",
                            "Performance multithread validée.",
                            "Résultats du test de performance :",
                            "==== Tests réussis ====">>
         /\ performanceTest' =
                Append(performanceTest,
                       PerformanceTest(systemInfo[1], multiThreadPerformance))
         /\ testAllState' = "resolved"
         /\ pc' = "done"
         /\ UNCHANGED errors

\* ----------------------------------------------- testMultiThreadPerformance
\* NumCores with the pool size hard-coded, as the comment on the line says.
NumCoresFour(cpu) == 4

\* const numCores = cpu.cores || 1
NumCores(cpu) == JsOr(cpu.cores, 1)

\* new Worker(...), the two handlers registered, worker.postMessage(i).
NewWorker(i) == [status |-> "running", inbox |-> <<i>>, terminated |-> 0]

\* for (let i = 0; i < numCores; i++): the workers created from index i on.
RECURSIVE SpawnLoop(_, _, _)
SpawnLoop(i, numCores, created) ==
    IF i < numCores
    THEN SpawnLoop(i + 1, numCores, Append(created, NewWorker(i)))
    ELSE created

\* Resolve with one result variable shared by the handlers of all workers:
\* the promises fulfilled so far hold the result that arrived last.
ResolveShared(promises, i, result) ==
    IF promises[i].state = "pending"
    THEN [j \in 1..Len(promises) |->
            IF j = i \/ promises[j].state = "fulfilled"
            THEN [state |-> "fulfilled", value |-> result]
            ELSE promises[j]]
    ELSE promises

\* resolve(result) and reject(error) of the i-th promise: a promise settles
\* once.
Resolve(promises, i, result) ==
    IF promises[i].state = "pending"
    THEN [promises EXCEPT ![i] = [state |-> "fulfilled", value |-> result]]
    ELSE promises

\* Reject without the 'error' handler registered.
RejectIgnored(promises, i) == promises

Reject(promises, i) ==
    IF promises[i].state = "pending"
    THEN [promises EXCEPT ![i] = [state |-> "rejected", value |-> 0]]
    ELSE promises

\* OnError with a clean-up the code does not have: every worker still running
\* is terminated when one raises.
OnErrorTerminatesAll(ws, i) ==
    [j \in 1..Len(ws) |->
        IF j = i THEN [ws[j] EXCEPT !.status = "errored"]
        ELSE IF ws[j].status = "running" THEN [ws[j] EXCEPT !.terminated = @ + 1]
        ELSE ws[j]]

\* worker.on("error", reject): the worker that raised has exited; the handler
\* is reject itself and touches no worker.
OnError(ws, i) == [ws EXCEPT ![i].status = "errored"]

\* OnMessage without the call of worker.terminate().
OnMessageNoTerminate(ws, i) == [ws EXCEPT ![i].status = "replied"]

\* worker.on("message"): after resolve(result), worker.terminate().
OnMessage(ws, i) ==
    [ws EXCEPT ![i].status = "replied", ![i].terminated = @ + 1]

\* Promise.any in place of Promise.all: the first reply fulfils it.
AnyFulfilled(promises) ==
    \E j \in 1..Len(promises) : promises[j].state = "fulfilled"

\* Promise.all(workerPromises) fulfils when every promise has.
AllFulfilled(promises) ==
    \A j \in 1..Len(promises) : promises[j].state = "fulfilled"

\* results.reduce((sum, result) => sum + result, 0), from index k on.
RECURSIVE Reduce(_, _, _)
Reduce(results, k, sum) ==
    IF k > Len(results) THEN sum
    ELSE Reduce(results, k + 1, sum + results[k].value)

\* TotalPerformance that leaves the first result out of the sum.
TotalPerformanceSkipsFirst(results) == Reduce(results, 2, 0)

TotalPerformance(results) == Reduce(results, 1, 0)

\* testMultiThreadPerformance returns totalPerformance to its caller.
MtpReturns(totalPerformance) ==
    /\ mtp' = [state |-> "fulfilled", value |-> totalPerformance]
    /\ IF entry = "testAll"
       THEN TestAllAfterMtp(totalPerformance)
       ELSE /\ pc' = "done"
            /\ UNCHANGED <<log, errors, performanceTest, testAllState>>

\* testMultiThreadPerformance rejects.
MtpThrows(error) ==
    /\ mtp' = [state |-> "rejected", value |-> 0]
    /\ IF entry = "testAll"
       THEN Catch(error) /\ UNCHANGED <<log, performanceTest>>
       ELSE /\ pc' = "done"
            /\ UNCHANGED <<log, errors, performanceTest, testAllState>>

\* The task results of a pool of n workers.
TaskTables(n) ==
    IF n <= MaxVaried
    THEN [1..n -> ReplyValues]
    ELSE {[i \in 1..n |-> v] : v \in ReplyValues}

\* ----------------------------------------------------------------- actions
\* testAll() is called: it runs to its first await, inside getSystemInfo.
CallTestAll ==
    /\ entry = "testAll"
    /\ pc = "idle"
    /\ log' = log \o <<"==== Début des tests ====",
                       "Test : Récupération des informations système...">>
    /\ testAllState' = "pending"
    /\ pc' = "gsi_cpu"
    /\ UNCHANGED <<entry, hw, systemInfo, workers, workerPromises, taskResult,
                   mtp, errors, performanceTest>>

\* SystemTester.testMultiThreadPerformance() is called directly.
CallTestMultiThreadPerformance ==
    /\ entry = "testMultiThreadPerformance"
    /\ pc = "idle"
    /\ mtp' = [state |-> "pending", value |-> 0]
    /\ pc' = "mtp_cpu"
    /\ UNCHANGED <<entry, hw, systemInfo, workers, workerPromises, taskResult,
                   log, errors, performanceTest, testAllState>>

\* One of the first five queries of getSystemInfo resolves; the next is made.
SiResolves ==
    /\ InSeq(GsiAwaits, pc)
    /\ IndexOf(GsiAwaits, pc) < Len(GsiAwaits)
    /\ pc' = GsiAwaits[IndexOf(GsiAwaits, pc) + 1]
    /\ UNCHANGED <<entry, hw, systemInfo, workers, workerPromises, taskResult,
                   mtp, log, errors, performanceTest, testAllState>>

\* The provider rejects the query awaited: getSystemInfo or
\* testMultiThreadPerformance rejects with the provider's error.
SiRejects ==
    /\ \/ /\ InSeq(GsiAwaits, pc)
          /\ Catch("ProviderError")
          /\ UNCHANGED <<mtp, log, performanceTest>>
       \/ /\ pc = "mtp_cpu"
          /\ MtpThrows("ProviderError")
    /\ UNCHANGED <<entry, hw, systemInfo, workers, workerPromises, taskResult>>

\* The last query of getSystemInfo resolves: getSystemInfo returns (or throws
\* on a missing controller, disk or interface) and testAll goes on to its
\* validations and to the call of testMultiThreadPerformance.
GetSystemInfoReturns ==
    /\ pc = GsiAwaits[Len(GsiAwaits)]
    /\ IF GetSystemInfoThrows(hw)
       THEN /\ Catch("TypeError")
            /\ UNCHANGED <<systemInfo, mtp, log, performanceTest>>
       ELSE LET info == GetSystemInfo(hw)
                error == Validate(info)
                shown == log \o <<"Informations sur le processeur :",
                                  "Informations sur la carte graphique :",
                                  "Informations sur la RAM :",
                                  "Informations sur le disque :",
                                  "Informations sur le réseau :">>
            IN  /\ systemInfo' = <<info>>
                /\ IF error # ""
                   THEN /\ log' = shown
                        /\ Catch(error)
                        /\ UNCHANGED <<mtp, performanceTest>>
                   ELSE /\ log' = shown \o
                                <<"Informations système validées.",
                                  "Test : Performance multithread du processeur...">>
                        /\ mtp' = [state |-> "pending", value |-> 0]
                        /\ pc' = "mtp_cpu"
                        /\ UNCHANGED <<errors, performanceTest, testAllState>>
    /\ UNCHANGED <<entry, hw, workers, workerPromises, taskResult>>

\* si.cpu() resolves inside testMultiThreadPerformance: the loop creates the
\* workers and the call suspends at Promise.all.
MtpCpuResolves ==
    /\ pc = "mtp_cpu"
    /\ LET numCores == NumCores(hw.cpu)
           created == SpawnLoop(0, numCores, <<>>)
       IN  /\ workers' = created
           /\ workerPromises' =
                [i \in 1..Len(created) |-> [state |-> "pending", value |-> 0]]
           /\ taskResult' \in TaskTables(Len(created))
           /\ IF Len(created) = 0
              THEN MtpReturns(TotalPerformance(<<>>))
              ELSE /\ pc' = "mtp_all"
                   /\ UNCHANGED <<mtp, log, errors, performanceTest, testAllState>>
    /\ UNCHANGED <<entry, hw, systemInfo>>

\* The 'message' event of worker i: its reply is received.
WorkerMessage(i) ==
    /\ i \in 1..Len(workers)
    /\ workers[i].status = "running"
    /\ workerPromises' = Resolve(workerPromises, i, taskResult[i])
    /\ workers' = OnMessage(workers, i)
    /\ IF pc = "mtp_all" /\ AllFulfilled(workerPromises')
       THEN MtpReturns(TotalPerformance(workerPromises'))
       ELSE UNCHANGED <<pc, mtp, log, errors, performanceTest, testAllState>>
    /\ UNCHANGED <<entry, hw, systemInfo, taskResult>>

\* The 'error' event of worker i: it raised before replying.
WorkerError(i) ==
    /\ i \in 1..Len(workers)
    /\ workers[i].status = "running"
    /\ workerPromises' = Reject(workerPromises, i)
    /\ workers' = OnError(workers, i)
    /\ IF pc = "mtp_all" /\ workerPromises'[i].state = "rejected"
       THEN MtpThrows("WorkerError")
       ELSE UNCHANGED <<pc, mtp, log, errors, performanceTest, testAllState>>
    /\ UNCHANGED <<entry, hw, systemInfo, taskResult>>

Next ==
    \/ CallTestAll
    \/ CallTestMultiThreadPerformance
    \/ SiResolves
    \/ SiRejects
    \/ GetSystemInfoReturns
    \/ MtpCpuResolves
    \/ \E i \in 1..(MaxCores + 1) : WorkerMessage(i)
    \/ \E i \in 1..(MaxCores + 1) : WorkerError(i)

Spec == Init /\ [][Next]_vars

\* ------------------------------------------------------------------ claims
\* The pool size the contract states: the logical core count, 1 when it is 0
\* or missing.
ExpectedPool ==
    IF hw.cpu.cores = Undefined THEN 1
    ELSE IF hw.cpu.cores[1] = 0 THEN 1 ELSE hw.cpu.cores[1]

Spawned == pc = "mtp_all" \/ mtp.state = "fulfilled" \/ workers # <<>>

Replied(i) == workers[i].status = "replied"
Errored(i) == workers[i].status = "errored"
Running(i) == workers[i].status = "running"
Pool == 1..Len(workers)

RECURSIVE SumOfReplies(_)
SumOfReplies(n) == IF n = 0 THEN 0 ELSE taskResult[n] + SumOfReplies(n - 1)

\* C2: when all N workers reply and none raises, the call returns, only after
\* every one of the N replies has been received, and the value returned is the
\* sum of the N replied numbers.
C2_ReturnsSumOfAll ==
    /\ mtp.state = "fulfilled" =>
          /\ \A i \in Pool : Replied(i)
          /\ mtp.value = SumOfReplies(Len(workers))
    /\ (workers # <<>> /\ \A i \in Pool : Replied(i)) => mtp.state = "fulfilled"

C2_Witness ==
    /\ Len(workers) = 8
    /\ \A i \in Pool : Replied(i) /\ taskResult[i] = 437
    /\ mtp = [state |-> "fulfilled", value |-> 3496]

\* C3: once a worker has raised an error before replying, the call has failed
\* and returns no number, whatever the other workers replied and in whatever
\* order; the failed worker is not restarted (no worker is added, nothing more
\* is posted to it).
C3_ErrorFailsWhole ==
    (\E i \in Pool : Errored(i)) =>
        /\ mtp = [state |-> "rejected", value |-> 0]
        /\ performanceTest = <<>>
        /\ Len(workers) = ExpectedPool
        /\ \A i \in Pool : Errored(i) =>
              workers[i].inbox = <<i - 1>> /\ workerPromises[i].state = "rejected"

C3_Witness ==
    /\ Len(workers) = 3
    /\ Replied(1) /\ Errored(2) /\ Replied(3)
    /\ mtp.state = "rejected"

\* C4: terminate is requested on a worker in the handler step that receives
\* its reply: exactly once when its reply has been received, not at all
\* before, and nothing is posted to it after its one message.
C4_TerminateOnReply ==
    \A i \in Pool :
        /\ workers[i].terminated = (IF Replied(i) THEN 1 ELSE 0)
        /\ Replied(i) => workerPromises[i] = [state |-> "fulfilled", value |-> taskResult[i]]
        /\ Len(workers[i].inbox) = 1

C4_Witness ==
    /\ Len(workers) = 2
    /\ Replied(2) /\ workers[2].terminated = 1
    /\ Running(1) /\ workers[1].terminated = 0

\* The conditions of the contract on a snapshot, group by group.
CpuViolated(info) ==
    \/ info.cpu.manufacturer = ""
    \/ info.cpu.brand = ""
    \/ info.cpu.speed <= 0
    \/ (info.cpu.cores # Undefined /\ info.cpu.cores[1] <= 0)
    \/ info.cpu.physicalCores <= 0

GpuViolated(info) == info.gpu.manufacturer = "" \/ info.gpu.model = ""

RamViolated(info) ==
    \/ info.ram.total.int < 0
    \/ (info.ram.total.int = 0 /\ info.ram.total.frac = 0)
    \/ info.ram.free.int < 0
    \/ info.ram.used.int < 0
    \/ (info.ram.used.int = 0 /\ info.ram.used.frac = 0)

SnapshotViolated(info) == CpuViolated(info) \/ GpuViolated(info) \/ RamViolated(info)

CpuError == "Erreur : Données du processeur invalides."
GpuError == "Erreur : Données de la carte graphique invalides."
RamError == "Erreur : Données de la RAM invalides."

ValidationFailed == errors # <<>> /\ errors[1] \in {CpuError, GpuError, RamError}

\* C5: validation of a snapshot fails if and only if a CPU, GPU or RAM
\* condition of the contract is violated; the groups are checked in the order
\* CPU, GPU, RAM and the one error raised is that of the first violated group,
\* also when several groups are violated.
C5_ValidationFirstGroup ==
    systemInfo # <<>> =>
        LET info == systemInfo[1]
        IN  /\ ValidationFailed <=> SnapshotViolated(info)
            /\ CpuViolated(info) => errors = <<CpuError>>
            /\ (~CpuViolated(info) /\ GpuViolated(info)) => errors = <<GpuError>>
            /\ (~CpuViolated(info) /\ ~GpuViolated(info) /\ RamViolated(info)) =>
                  errors = <<RamError>>

C5_Witness ==
    /\ systemInfo # <<>>
    /\ CpuViolated(systemInfo[1]) /\ GpuViolated(systemInfo[1]) /\ RamViolated(systemInfo[1])
    /\ errors = <<CpuError>>

\* C6: in testAll, testMultiThreadPerformance is called and workers are created
\* only after getSystemInfo has completed and validation has passed; in a run
\* where the hardware query or the validation failed it is never called and no
\* worker exists.
C6_BenchmarkAfterValidation ==
    entry = "testAll" =>
        /\ (mtp.state # "idle" \/ workers # <<>>) =>
              /\ systemInfo # <<>>
              /\ ~SnapshotViolated(systemInfo[1])
              /\ ~ValidationFailed
        /\ (pc = "done" /\ (systemInfo = <<>> \/ SnapshotViolated(systemInfo[1]))) =>
              /\ mtp = [state |-> "idle", value |-> 0]
              /\ workers = <<>> /\ workerPromises = <<>>
              /\ Len(errors) = 1

C6_Witness ==
    /\ entry = "testAll"
    /\ pc = "done"
    /\ systemInfo # <<>>
    /\ systemInfo[1].cpu.manufacturer = ""
    /\ errors = <<CpuError>>
    /\ mtp.state = "idle" /\ workers = <<>>

SuccessLine == "==== Tests réussis ===="

\* A testAll run that has ended otherwise than with a positive benchmark
\* result: a provider error, a validation error, a worker error or a
\* non-positive sum.
TestAllFailed ==
    /\ entry = "testAll"
    /\ pc = "done"
    /\ ~(mtp.state = "fulfilled" /\ mtp.value > 0)

QAdd(a, b) ==
    LET f == a.frac + b.frac
    IN  IF f >= GiB THEN [int |-> a.int + b.int + 1, frac |-> f - GiB]
                    ELSE [int |-> a.int + b.int, frac |-> f]

\* q * 1024 ** 3, as a byte count.
QTimesGiB(q) == Bytes(q.int * 1024 + q.frac \div MiB, q.frac % MiB)

Whole(n) == [int |-> n, frac |-> 0]

C9_SuccessRecord ==
    /\ InSeq(log, SuccessLine) =>
          /\ systemInfo # <<>>
          /\ ~SnapshotViolated(systemInfo[1])
          /\ mtp.state = "fulfilled"
          /\ mtp.value > 0
          /\ errors = <<>>
          /\ performanceTest =
                <<[cpuFrequency |-> systemInfo[1].cpu.speed,
                   gpuPerformance |-> 100,
                   ramSpeed |-> 3200,
                   diskSpeed |-> 500,
                   multiThreadPerformance |-> mtp.value]>>
    /\ performanceTest # <<>> => InSeq(log, SuccessLine)
    /\ (entry = "testAll" /\ mtp.state = "fulfilled" /\ mtp.value > 0) =>
          InSeq(log, SuccessLine)

C9_Witness ==
    /\ InSeq(log, SuccessLine)
    /\ Len(workers) = 2
    /\ performanceTest =
          <<[cpuFrequency |-> 3, gpuPerformance |-> 100, ramSpeed |-> 3200,
             diskSpeed |-> 500, multiThreadPerformance |-> 438]>>

\* C10: no timeout, no cancellation: while a worker of the pool has not
\* replied and no worker has raised, the call is pending (it has neither
\* returned nor failed), however many others have replied; once every worker
\* has replied the call returns.
C10_Stalls ==
    (workers # <<>> /\ (\E i \in Pool : Running(i)) /\ ~(\E i \in Pool : Errored(i))) =>
        /\ mtp = [state |-> "pending", value |-> 0]
        /\ pc = "mtp_all"
        /\ entry = "testAll" => testAllState = "pending" /\ errors = <<>>

C10_NoTimeout ==
    /\ []C10_Stalls
    /\ (workers # <<>> /\ \A i \in Pool : Replied(i)) ~> (mtp.state = "fulfilled")

C10_Witness ==
    /\ Len(workers) = 3
    /\ Replied(1) /\ Replied(2) /\ Running(3)
    /\ mtp.state = "pending"

\* The sum of the replies as a sum over the reply values, each counted as
\* often as a worker of the pool replies it: no order of workers enters it.
RECURSIVE SumOver(_)
SumOver(values) ==
    IF values = {} THEN 0
    ELSE LET v == CHOOSE x \in values : TRUE
         IN  v * Cardinality({i \in 1..Len(taskResult) : taskResult[i] = v})
             + SumOver(values \ {v})

\* C11: the value returned does not depend on the order in which the workers
\* reply: whichever interleaving of the reply events led to the return, each
\* promise holds the reply of its own worker and the value returned is the
\* sum of the per-worker reply values, counted without any order.
C11_OrderIrrelevant ==
    /\ \A i \in Pool :
          workerPromises[i].state = "fulfilled" => workerPromises[i].value = taskResult[i]
    /\ mtp.state = "fulfilled" => mtp.value = SumOver(ReplyValues)

C11_Witness ==
    /\ taskResult = <<437, 1>>
    /\ Replied(1) /\ Replied(2)
    /\ mtp = [state |-> "fulfilled", value |-> 438]

\* What holds of the workers once the call has completed.
C12_Completed ==
    /\ mtp.state = "fulfilled" =>
          /\ Len(workers) = ExpectedPool
          /\ \A i \in Pool : workers[i].terminated = 1
    /\ mtp.state = "rejected" =>
          \A i \in Pool : ~Replied(i) => workers[i].terminated = 0

\* What a step does to the workers: the first error fails the call in that
\* very step, with the other workers left as they are, and terminate is
\* requested on a worker only in the step that receives its reply.
C12_Step ==
    /\ \A i \in Pool :
          (mtp.state = "pending" /\ Running(i) /\ workers'[i].status = "errored") =>
              /\ mtp'.state = "rejected"
              /\ \A j \in Pool \ {i} : workers'[j] = workers[j]
    /\ \A j \in Pool :
          workers'[j].terminated # workers[j].terminated =>
              /\ Running(j)
              /\ workers'[j].status = "replied"
              /\ workers'[j].terminated = 1

\* C12: when the call returns, terminate has been requested on every one of
\* the N workers; when it fails, it fails at the first worker error without
\* waiting for the others, and a worker that has not replied by then has not
\* been terminated: it is left running after the call has completed and is
\* terminated only if and when it replies later.
C12_WorkersAtCompletion == []C12_Completed /\ [][C12_Step]_vars

C12_Witness ==
    /\ Len(workers) = 3
    /\ mtp.state = "rejected" /\ pc = "done"
    /\ Errored(1)
    /\ Running(2) /\ workers[2].terminated = 0
    /\ Replied(3) /\ workers[3].terminated = 1

====
